---- MODULE Spec2Model ----
(***************************************************************************)
(* Parking occupancy forecasting (forecast/src): the data loader, the      *)
(* feature pipeline, the training script and the REST server, as state     *)
(* machines over a small relational database and one model file.           *)
(*                                                                         *)
(* Data frames are records [cols, rows]: cols is the ordered list of       *)
(* column names and rows the ordered list of rows, each row a function     *)
(* from column name to a cell.  A cell is a tuple: <<>> is NaN, <<n>> a    *)
(* number, <<s>> a string, <<a, b>> the rational a/b and                   *)
(* <<"sqrt", a, b>> the square root of a/b.                                *)
(***************************************************************************)
EXTENDS Integers, Sequences, FiniteSets, TLC

VARIABLES
    parking_readings,     \* table parking_readings of data/parking.db: a set of rows
    parking_lots,         \* table parking_lots of data/parking.db: a set of rows
    model_file,           \* models/parking_forecaster_xgboost.pkl
    trainer,              \* the process running train.py
    forecaster,           \* server.py global
    data_loader,          \* server.py global
    model_path,           \* server.py global
    model_last_modified,  \* server.py global
    pc,                   \* where the server is in the request it is serving
    req,                  \* the request being served and what it has seen so far
    resp,                 \* the response to the last request served
    predict_call,         \* the model and matrix of the last forecaster.predict call
    df_in,                \* SpecFeat: the frame handed to the feature functions
    df_args,              \* SpecFeat: the lags / windows / group_col handed to them
    df_out                \* SpecFeat: the frame a feature function returned

dbVars == <<parking_readings, parking_lots>>

fileVars == <<model_file, trainer>>

serverVars == <<forecaster, data_loader, model_path, model_last_modified>>

requestVars == <<pc, req, resp, predict_call>>

featVars == <<df_in, df_args, df_out>>

vars == <<dbVars, fileVars, serverVars, requestVars, featVars>>

\* ------------------------------------------------------------------ bounds

\* Most rows of a frame handed to the feature functions.
MaxRows == 5

\* The readings of a lot are taken at the hours 1..MaxTs.
MaxTs == 5

\* The file system stamps a written file with a time in 1..MaxMtime.
MaxMtime == 3

\* The trainer runs at most MaxTrainings times.
MaxTrainings == 2

\* Stored timestamps are fixed-width texts of TsDigits digits to base TsBase.
TsDigits == 3

TsBase == 2

\* ------------------------------------------------------------------ cells

NaN == <<>>

Num(n) == <<n>>

Str(s) == <<s>>

isna(v) == Len(v) = 0

\* Python's None.  An optional string (group_col, the lot_id query parameter)
\* is written as a string, None being NoString; an optional list is List(l).
None == <<>>

NoString == ""

List(l) == <<l>>

Max(a, b) == IF a >= b THEN a ELSE b

Min(a, b) == IF a <= b THEN a ELSE b

RECURSIVE SeqSum(_)
SeqSum(s) == IF s = <<>> THEN 0 ELSE s[1] + SeqSum(Tail(s))

RECURSIVE SeqMax(_)
SeqMax(s) == IF Len(s) = 1 THEN s[1] ELSE Max(s[1], SeqMax(Tail(s)))

RECURSIVE SeqMin(_)
SeqMin(s) == IF Len(s) = 1 THEN s[1] ELSE Min(s[1], SeqMin(Tail(s)))

\* A sequence and a row as explicit values (TLC keeps a function written
\* [x \in S |-> e] unevaluated and evaluates e anew at every application).
Tup(s) == <<>> \o s

Row(f) == f @@ <<>>

\* A sequence without its last element.
Front(s) == SubSeq(s, 1, Len(s) - 1)

\* The indices 1..n in ascending order.
Range(n) == Tup([i \in 1..n |-> i])

\* ------------------------------------------------------------- data frames

EmptyFrame(cols) == [cols |-> cols, rows |-> <<>>]

HasCol(df, c) == \E k \in 1..Len(df.cols) : df.cols[k] = c

\* df[name] = vals: a new column is appended, an existing one overwritten.
SetCol(df, name, vals) ==
    [cols |-> IF HasCol(df, name) THEN df.cols ELSE Append(df.cols, name),
     rows |-> Tup([i \in 1..Len(df.rows) |-> (name :> vals[i]) @@ df.rows[i]])]

\* df.dropna(): the rows no cell of which is NaN, in order.
RowComplete(row) == \A c \in DOMAIN row : ~isna(row[c])

dropna(df) == [cols |-> df.cols, rows |-> SelectSeq(df.rows, RowComplete)]

\* ---------------------------------------------------------------- features

\* The positions of the rows of group g, ascending (one group of groupby).
GroupIndices(df, group_col, g) ==
    SelectSeq(Range(Len(df.rows)), LAMBDA i : df.rows[i][group_col] = g)

\* The place of row i within its group's index list.
PosInGroup(idx, i) == Cardinality({k \in 1..Len(idx) : idx[k] <= i})

\* Series.shift(lag): the value lag places earlier, NaN for the first lag.
shift(x, lag) == Tup([k \in 1..Len(x) |-> IF k > lag THEN x[k - lag] ELSE NaN])

LagColumnUngrouped(df, target_col, lag, group_col) ==
    shift(Tup([k \in 1..Len(df.rows) |-> df.rows[k][target_col]]), lag)

\* groupby(group_col)[target_col].shift(lag): each group's values shifted
\* within the group and put back at the rows' own places.
LagColumn(df, target_col, lag, group_col) ==
    IF group_col # NoString
    THEN Tup([i \in 1..Len(df.rows) |->
            LET idx == GroupIndices(df, group_col, df.rows[i][group_col])
                x   == Tup([k \in 1..Len(idx) |-> df.rows[idx[k]][target_col]])
            IN  shift(x, lag)[PosInGroup(idx, i)]])
    ELSE shift(Tup([k \in 1..Len(df.rows) |-> df.rows[k][target_col]]), lag)

\* for lag in lags: the frame after the lags before the last one gets the
\* last one's column.
RECURSIVE add_lag_features(_, _, _, _)
add_lag_features(df, target_col, lags, group_col) ==
    IF lags = <<>> THEN df
    ELSE LET d   == add_lag_features(df, target_col, Front(lags), group_col)
             lag == lags[Len(lags)]
         IN  SetCol(d, target_col \o "_lag_" \o ToString(lag),
                    LagColumn(d, target_col, lag, group_col))

\* x.rolling(window, min_periods=1): the window ending at place k.
Window(x, window, k) ==
    LET w == SubSeq(x, Max(1, k - window + 1), k) IN Tup([j \in 1..Len(w) |-> w[j][1]])

\* .mean(), .std() (the sample deviation, ddof = 1: NaN for one observation),
\* .max() and .min() of a rolling window.
RollingStat(stat, x, window) ==
    Tup([k \in 1..Len(x) |->
        LET w == Window(x, window, k)
            n == Len(w)
            s == SeqSum(w)
            q == SeqSum([j \in 1..n |-> w[j] * w[j]])
        IN  CASE stat = "mean" -> <<s, n>>
              [] stat = "std"  -> IF n < 2 THEN NaN
                                  ELSE <<"sqrt", n * q - s * s, n * (n - 1)>>
              [] stat = "max"  -> Num(SeqMax(w))
              [] stat = "min"  -> Num(SeqMin(w))])

RollingColumnUngrouped(df, target_col, stat, window, group_col) ==
    RollingStat(stat, Tup([k \in 1..Len(df.rows) |-> df.rows[k][target_col]]), window)

\* grouped.transform(lambda x: x.rolling(window, min_periods=1).<stat>()).
RollingColumn(df, target_col, stat, window, group_col) ==
    IF group_col # NoString
    THEN Tup([i \in 1..Len(df.rows) |->
            LET idx == GroupIndices(df, group_col, df.rows[i][group_col])
                x   == Tup([k \in 1..Len(idx) |-> df.rows[idx[k]][target_col]])
            IN  RollingStat(stat, x, window)[PosInGroup(idx, i)]])
    ELSE RollingStat(stat, Tup([k \in 1..Len(df.rows) |-> df.rows[k][target_col]]),
                     window)

RollingStats == <<"mean", "std", "max", "min">>

RollingName(target_col, stat, window) ==
    target_col \o "_rolling_" \o stat \o "_" \o ToString(window)

\* The columns of one window, in the order mean, std, max, min.
RECURSIVE AddRollingStats(_, _, _, _, _)
AddRollingStats(df, target_col, stats, window, group_col) ==
    IF stats = <<>> THEN df
    ELSE LET d    == AddRollingStats(df, target_col, Front(stats), window, group_col)
             stat == stats[Len(stats)]
         IN  SetCol(d, RollingName(target_col, stat, window),
                    RollingColumn(d, target_col, stat, window, group_col))

\* for window in windows: the frame after the windows before the last one gets
\* the last one's columns.
RECURSIVE add_rolling_features(_, _, _, _)
add_rolling_features(df, target_col, windows, group_col) ==
    IF windows = <<>> THEN df
    ELSE AddRollingStats(
            add_rolling_features(df, target_col, Front(windows), group_col),
            target_col, RollingStats, windows[Len(windows)], group_col)

\* -------------------------------------------------------------- timestamps

\* parking_readings.timestamp is a text column.  Its texts are taken to be
\* of one fixed-width format, written here as <<"T", d1, .., dn>>, most
\* significant digit first; t counts the hours since Monday 2024-01-01 00:00.
RECURSIVE Digits(_, _)
Digits(t, n) == IF n = 0 THEN <<>> ELSE Append(Digits(t \div TsBase, n - 1), t % TsBase)

TsText(t) == <<"T">> \o Digits(t, TsDigits)

\* SQLite's comparison of two texts: by the first place where they differ.
RECURSIVE TextLess(_, _)
TextLess(a, b) ==
    IF a = <<>> \/ b = <<>> THEN a = <<>> /\ b # <<>>
    ELSE IF a[1] # b[1] THEN a[1] < b[1] ELSE TextLess(Tail(a), Tail(b))

TextLeq(a, b) == a = b \/ TextLess(Tail(a), Tail(b))

\* pd.to_datetime of a stored text.
RECURSIVE DigitsValue(_)
DigitsValue(d) ==
    IF d = <<>> THEN 0 ELSE DigitsValue(SubSeq(d, 1, Len(d) - 1)) * TsBase + d[Len(d)]

to_datetime(text) == Num(DigitsValue(Tail(text)))

\* ------------------------------------------------------------- the database

RegisteredLots == {"A", "B"}

\* A lot id no row of either table names.
UnknownLot == "C"

LotIds == RegisteredLots \cup {UnknownLot}

LotTotal(l) == IF l = "A" THEN 2 ELSE 4

LotIndex(l) == IF l = "A" THEN 1 ELSE 2

\* The free spaces the sensors of a lot report.
FreeValues(l) == IF l = "A" THEN {0, 1} ELSE {1}

LotColumns == <<"id", "name", "address", "total", "lot_type", "latitude", "longitude">>

ReadingColumns == <<"id", "lot_id", "timestamp", "free">>

LotRow(l) ==
    Row([c \in {LotColumns[k] : k \in 1..Len(LotColumns)} |->
        CASE c = "id"        -> Str(l)
          [] c = "name"      -> Str("Lot " \o l)
          [] c = "address"   -> Str(l \o " street")
          [] c = "total"     -> Num(LotTotal(l))
          [] c = "lot_type"  -> Str("garage")
          [] c = "latitude"  -> Num(LotIndex(l))
          [] c = "longitude" -> Num(LotIndex(l))])

ReadingRow(l, t, f) ==
    Row([c \in {ReadingColumns[k] : k \in 1..Len(ReadingColumns)} |->
        CASE c = "id"        -> Num((t - 1) * Cardinality(RegisteredLots) + LotIndex(l))
          [] c = "lot_id"    -> Str(l)
          [] c = "timestamp" -> TsText(t)
          [] c = "free"      -> Num(f)])

\* ORDER BY timestamp: ascending by the stored text; SQL leaves the order of
\* rows of equal timestamp open, and here the rows of lot `tie` come first.
ReadingBefore(x, y, tie) ==
    \/ TextLess(Tail(x["timestamp"]), Tail(y["timestamp"]))
    \/ x["timestamp"] = y["timestamp"] /\ x["lot_id"] = Str(tie)

RECURSIVE OrderByTimestamp(_, _)
OrderByTimestamp(S, tie) ==
    IF S = {} THEN <<>>
    ELSE LET r == CHOOSE x \in S : \A y \in S \ {x} : ReadingBefore(x, y, tie)
         IN  <<r>> \o OrderByTimestamp(S \ {r}, tie)

\* The rows of parking_lots in the table's own order.
RECURSIVE TableOrder(_)
TableOrder(S) ==
    IF S = {} THEN <<>>
    ELSE LET r == CHOOSE x \in S :
                     \A y \in S : LotIndex(x["id"][1]) <= LotIndex(y["id"][1])
         IN  <<r>> \o TableOrder(S \ {r})

\* ------------------------------------------------------------- data_loader

InSeq(x, s) == \E k \in 1..Len(s) : s[k] = x

\* The database file as the loader reads it now.
DB == [parking_readings |-> parking_readings, parking_lots |-> parking_lots]

load_parking_lots(db) ==
    [cols |-> LotColumns, rows |-> TableOrder(db.parking_lots)]

\* if start_date / if end_date / if lot_ids: None and [] add no condition.
Truthy(v) == v # None /\ v # List(<<>>)

ReadingsWhere(db, start_date, end_date, lot_ids) ==
    {r \in db.parking_readings :
        /\ Truthy(start_date) => TextLeq(start_date, r["timestamp"])
        /\ Truthy(end_date) => TextLeq(r["timestamp"], end_date)
        /\ Truthy(lot_ids) => InSeq(r["lot_id"][1], lot_ids[1])}

load_readings(db, start_date, end_date, lot_ids, tie) ==
    LET rows == OrderByTimestamp(ReadingsWhere(db, start_date, end_date, lot_ids), tie)
    IN  [cols |-> ReadingColumns,
         rows |-> Tup([i \in 1..Len(rows) |->
                     [rows[i] EXCEPT !["timestamp"] = to_datetime(@)]])]

\* df[[c1, .., cn]]
Project(df, cols) ==
    [cols |-> cols,
     rows |-> Tup([i \in 1..Len(df.rows) |->
                 Row([c \in {cols[k] : k \in 1..Len(cols)} |-> df.rows[i][c]])])]

ColSet(df) == {df.cols[k] : k \in 1..Len(df.cols)}

RECURSIVE Flatten(_)
Flatten(ss) == IF ss = <<>> THEN <<>> ELSE ss[1] \o Flatten(Tail(ss))

\* left.merge(right, left_on, right_on, suffixes): the inner join in the
\* order of the left rows; a column name both sides hold gets the side's suffix.
Renamed(df, other, suffix) ==
    Tup([k \in 1..Len(df.cols) |->
        IF df.cols[k] \in ColSet(other) THEN df.cols[k] \o suffix ELSE df.cols[k]])

merge(left, right, left_on, right_on, suffixes) ==
    LET lcols == Renamed(left, right, suffixes[1])
        rcols == Renamed(right, left, suffixes[2])
        cols  == lcols \o rcols
        Join(l, r) ==
            Row([c \in {cols[k] : k \in 1..Len(cols)} |->
                IF \E k \in 1..Len(lcols) : lcols[k] = c
                THEN l[left.cols[CHOOSE k \in 1..Len(lcols) : lcols[k] = c]]
                ELSE r[right.cols[CHOOSE k \in 1..Len(rcols) : rcols[k] = c]]])
        Matches(l) ==
            LET m == SelectSeq(right.rows, LAMBDA r : r[right_on] = l[left_on])
            IN  Tup([k \in 1..Len(m) |-> Join(l, m[k])])
    IN  [cols |-> cols,
         rows |-> Flatten(Tup([i \in 1..Len(left.rows) |-> Matches(left.rows[i])]))]

\* The share of free spaces instead of the occupied ones.
FreeRate(occupied, total) == ((total - occupied) * 100) \div total

\* df['occupied'] = df['total'] - df['free']
\* df['occupancy_rate'] = (df['occupied'] / df['total']) * 100
\* (the capacities of the model divide 100 * occupied, so the rate is whole).
OccupancyRate(occupied, total) == (occupied * 100) \div total

WithOccupancy(df) ==
    LET d1 == SetCol(df, "occupied",
                Tup([i \in 1..Len(df.rows) |->
                    Num(df.rows[i]["total"][1] - df.rows[i]["free"][1])]))
    IN  SetCol(d1, "occupancy_rate",
                Tup([i \in 1..Len(d1.rows) |->
                    Num(OccupancyRate(d1.rows[i]["occupied"][1], d1.rows[i]["total"][1]))]))

LotInfoColumns == <<"id", "name", "total", "lot_type", "latitude", "longitude">>

load_combined_data(db, tie) ==
    WithOccupancy(merge(load_readings(db, None, None, None, tie),
                        Project(load_parking_lots(db), LotInfoColumns),
                        "lot_id", "id", <<"", "_lot">>))

\* ------------------------------------------------------ temporal features

\* The calendar fields of a datetime t hours after Monday 2024-01-01 00:00
\* (t stays within January 2024), and the fields derived from them; a sine or
\* cosine is kept as the term <<"sin", k, period>>.
TemporalColumns ==
    <<"hour", "day_of_week", "day_of_month", "month", "year", "week_of_year",
      "hour_sin", "hour_cos", "day_sin", "day_cos", "month_sin", "month_cos",
      "is_weekend", "is_business_hours", "is_rush_hour">>

Bool(b) == Num(IF b THEN 1 ELSE 0)

TemporalValue(c, t) ==
    LET hour == t % 24
        dow  == (t \div 24) % 7
    IN  CASE c = "hour"              -> Num(hour)
          [] c = "day_of_week"       -> Num(dow)
          [] c = "day_of_month"      -> Num((t \div 24) + 1)
          [] c = "month"             -> Num(1)
          [] c = "year"              -> Num(2024)
          [] c = "week_of_year"      -> Num((t \div (24 * 7)) + 1)
          [] c = "hour_sin"          -> <<"sin", hour, 24>>
          [] c = "hour_cos"          -> <<"cos", hour, 24>>
          [] c = "day_sin"           -> <<"sin", dow, 7>>
          [] c = "day_cos"           -> <<"cos", dow, 7>>
          [] c = "month_sin"         -> <<"sin", 1, 12>>
          [] c = "month_cos"         -> <<"cos", 1, 12>>
          [] c = "is_weekend"        -> Bool(dow \in {5, 6})
          [] c = "is_business_hours" -> Bool(hour >= 8 /\ hour <= 18)
          [] c = "is_rush_hour"      -> Bool((hour >= 7 /\ hour <= 9)
                                             \/ (hour >= 16 /\ hour <= 19))

\* The fifteen cells lines 32-53 assign to the row of datetime t.
TemporalRow(t) ==
    Row([c \in {TemporalColumns[k] : k \in 1..Len(TemporalColumns)} |->
            TemporalValue(c, t)])

\* add_temporal_features: each of the fifteen columns is appended, or
\* overwritten where the frame holds it already.
add_temporal_features(df, timestamp_col) ==
    [cols |-> df.cols \o SelectSeq(TemporalColumns, LAMBDA c : ~HasCol(df, c)),
     rows |-> Tup([i \in 1..Len(df.rows) |->
                 TemporalRow(df.rows[i][timestamp_col][1]) @@ df.rows[i]])]

\* The feature pipeline train_model and the two forecast handlers share.
ServingLags == <<1, 2, 3>>

ServingWindows == <<3>>

EngineerFeatures(df) ==
    add_rolling_features(
        add_lag_features(add_temporal_features(df, "timestamp"),
                         "occupancy_rate", ServingLags, "lot_id"),
        "occupancy_rate", ServingWindows, "lot_id")

\* ------------------------------------------------------- ParkingForecaster

\* ParkingForecaster(): a regressor not fitted yet, no feature columns.
NewForecaster(model_type) ==
    [model |-> [fitted |-> FALSE, columns |-> <<>>, version |-> 0],
     model_type |-> model_type,
     feature_columns |-> None,
     target_column |-> None]

ExcludeColsWithoutIdLot ==
    {"id", "lot_id", "city", "timestamp", "name", "address", "region", "created_at",
     "updated_at", "state", "free", "occupied", "lot_type", "latitude", "longitude"}

\* prepare_data's default exclude_cols, without the target column.
ExcludeCols ==
    {"id", "lot_id", "city", "timestamp", "name", "address", "region", "created_at",
     "updated_at", "state", "free", "occupied", "lot_type", "id_lot", "latitude",
     "longitude"}

\* The columns of dtype object (strings).
ObjectColumns == {"lot_id", "name", "address", "lot_type", "id_lot"}

\* prepare_data: feature_cols are the frame's columns outside exclude_cols and
\* the target; X loses the columns of strings, feature_columns keeps them.
prepare_data(self, df, target_col) ==
    LET feature_cols == SelectSeq(df.cols, LAMBDA c : c \notin ExcludeCols \cup {target_col})
        X == Project(df, SelectSeq(feature_cols, LAMBDA c : c \notin ObjectColumns))
    IN  [self |-> [self EXCEPT !.feature_columns = feature_cols,
                               !.target_column = target_col],
         X |-> X,
         y |-> Tup([i \in 1..Len(df.rows) |-> df.rows[i][target_col]])]

\* train: model.fit(X_train, ..): the regressor remembers the columns it saw.
train(self, X_train, version) ==
    [self EXCEPT !.model = [fitted |-> TRUE, columns |-> X_train.cols,
                            version |-> version]]

\* save: the dictionary joblib.dump writes.
model_data(self) ==
    [model |-> self.model, model_type |-> self.model_type,
     feature_columns |-> self.feature_columns, target_column |-> self.target_column]

\* load: the four fields are taken from the file's dictionary.
load(self, data) ==
    [model |-> data.model, model_type |-> data.model_type,
     feature_columns |-> data.feature_columns, target_column |-> data.target_column]

\* predict raises when the model is None; the regressor raises when it is not
\* fitted or when X's columns are not the ones it was fitted on.
PredictRaises(self, X) ==
    \/ self.model = None
    \/ ~self.model.fitted
    \/ self.model.columns # X.cols

\* ------------------------------------------------------------- train_model

\* train_test_split(test_size=0.2, shuffle=False): the last ceil(0.2 n) rows
\* are the test set; it raises when the training set would be empty.
TestSize(n) == (n + 4) \div 5

\* The split with the test set taken from the front.
TrainTestSplitHead(n) ==
    [train |-> Tup([i \in 1..(n - TestSize(n)) |-> TestSize(n) + i]),
     test  |-> Range(TestSize(n))]

\* train_test_split(X, y, test_size=0.2, shuffle=False), as the positions of
\* the n rows of X that go to X_train and to X_test.
train_test_split(n) ==
    [train |-> Range(n - TestSize(n)),
     test  |-> Tup([i \in 1..TestSize(n) |-> n - TestSize(n) + i])]

\* train_model up to the split, lines 28-72: the frame after dropna, X, and
\* the split of the rows of X (None when no row is left or the split raises).
\* prepare_data keeps the rows of the frame in place, so row i of X is row i
\* of the frame.
TrainModelSplit(db, tie) ==
    LET df == dropna(EngineerFeatures(load_combined_data(db, tie)))
        n  == Len(df.rows)
        p  == prepare_data(NewForecaster("xgboost"), df, "occupancy_rate")
    IN  [df |-> df, self |-> p.self, X |-> p.X,
         split |-> IF n = 0 \/ n - TestSize(n) = 0 THEN None ELSE train_test_split(n)]

\* The forecaster train_model saves as its `version`-th model, or None when
\* no row is left after dropna or the split raises.
train_model(db, version, tie) ==
    LET s == TrainModelSplit(db, tie)
        X_train == [cols |-> s.X.cols,
                    rows |-> Tup([k \in 1..Len(s.split.train) |->
                                    s.X.rows[s.split.train[k]]])]
    IN  IF s.split = None THEN None
        ELSE train(s.self, X_train, version)

\* ------------------------------------------------------------------ server

\* What a call ends in: a return value, or an exception raised.
Return(body) == [kind |-> "return", status_code |-> 200, body |-> body]

HTTPException(status_code, detail) ==
    [kind |-> "HTTPException", status_code |-> status_code, body |-> detail]

Exception(name) == [kind |-> "Exception", status_code |-> 0, body |-> name]

\* The response the framework sends for what a handler ends in.
Response(outcome) ==
    IF outcome.kind = "Exception"
    THEN [status_code |-> 500, body |-> "Internal Server Error"]
    ELSE [status_code |-> outcome.status_code, body |-> outcome.body]

\* The band without the clamps of lines 289-290.
ForecastUnclamped(lot_id, name, prediction) ==
    [lot_id |-> lot_id, name |-> name,
     predicted_occupancy_rate |-> prediction,
     confidence_low |-> prediction - 10,
     confidence_high |-> prediction + 10]

\* Simple confidence interval: max(0, prediction - 10), min(100, prediction + 10).
Forecast(lot_id, name, prediction) ==
    [lot_id |-> lot_id, name |-> name,
     predicted_occupancy_rate |-> prediction,
     confidence_low |-> Max(0, prediction - 10),
     confidence_high |-> Min(100, prediction + 10)]

\* df.sort_values('timestamp'): ascending by the datetime; the default sort is
\* not stable, rows of equal timestamp come with the rows of lot `tie` first.
RowBefore(x, y, tie) ==
    \/ x["timestamp"][1] < y["timestamp"][1]
    \/ x["timestamp"] = y["timestamp"] /\ x["lot_id"] = Str(tie)

RECURSIVE SortRows(_, _)
SortRows(S, tie) ==
    IF S = {} THEN <<>>
    ELSE LET r == CHOOSE x \in S : \A y \in S \ {x} : RowBefore(x, y, tie)
         IN  <<r>> \o SortRows(S \ {r}, tie)

sort_values(df, tie) ==
    [cols |-> df.cols, rows |-> SortRows({df.rows[i] : i \in 1..Len(df.rows)}, tie)]

\* groupby('lot_id').head(1): each lot's first row.
GroupHead(df) ==
    LET keep == SelectSeq(Range(Len(df.rows)),
                    LAMBDA i : \A j \in 1..(i - 1) :
                                  df.rows[j]["lot_id"] # df.rows[i]["lot_id"])
    IN  [cols |-> df.cols, rows |-> Tup([k \in 1..Len(keep) |-> df.rows[keep[k]]])]

\* df.groupby('lot_id').tail(1): each lot's last row, in the frame's order.
GroupTail(df) ==
    LET keep == SelectSeq(Range(Len(df.rows)),
                    LAMBDA i : \A j \in (i + 1)..Len(df.rows) :
                                  df.rows[j]["lot_id"] # df.rows[i]["lot_id"])
    IN  [cols |-> df.cols, rows |-> Tup([k \in 1..Len(keep) |-> df.rows[keep[k]]])]

\* latest[forecaster.feature_columns] raises KeyError when feature_columns is
\* None or names a column the frame does not hold.
SelectRaises(df, feature_columns) ==
    \/ feature_columns = None
    \/ \E k \in 1..Len(feature_columns) : ~HasCol(df, feature_columns[k])

\* The rows a frame handed to predict came from.
Source(df) ==
    Tup([i \in 1..Len(df.rows) |->
        [lot_id |-> df.rows[i]["lot_id"][1], timestamp |-> df.rows[i]["timestamp"][1]]])

NoCall == [model |-> None, X |-> None, source |-> <<>>, returned |-> <<>>]

\* The predict call of a handler that got as far as calling it.
PredictCall(latest) ==
    [model |-> forecaster.model, X |-> Project(latest, forecaster.feature_columns),
     source |-> Source(latest), returned |-> <<>>]

\* get_forecast, lines 240-286: what the try block ends in before the model
\* answers: an exception, or the predict call and the lot's name.
GetForecastTry(lot_id) ==
    LET df0      == load_readings(DB, None, None, List(<<lot_id>>), lot_id)
        lots_df  == load_parking_lots(DB)
        lot_info == SelectSeq(lots_df.rows, LAMBDA r : r["id"] = Str(lot_id))
        df1      == WithOccupancy(merge(df0, Project(lots_df, LotInfoColumns),
                                        "lot_id", "id", <<"_x", "_y">>))
        df2      == dropna(EngineerFeatures(df1))
        latest   == [cols |-> df2.cols,
                     rows |-> SubSeq(df2.rows, Len(df2.rows), Len(df2.rows))]
    IN  IF Len(df0.rows) = 0
        THEN [outcome |-> HTTPException(404, "No data found for lot"), call |-> NoCall]
        ELSE IF Len(lot_info) = 0
        THEN [outcome |-> HTTPException(404, "Lot not found"), call |-> NoCall]
        ELSE IF Len(df2.rows) = 0
        THEN [outcome |-> HTTPException(400, "Insufficient historical data for lot"),
              call |-> NoCall]
        ELSE IF SelectRaises(latest, forecaster.feature_columns)
        THEN [outcome |-> Exception("KeyError"), call |-> NoCall]
        ELSE IF PredictRaises(forecaster, PredictCall(latest).X)
        THEN [outcome |-> Exception("ValueError"), call |-> PredictCall(latest)]
        ELSE [outcome |-> Return(<<lot_info[1]["name"][1]>>), call |-> PredictCall(latest)]

ExceptRewrapAll(r) ==
    IF r.outcome.kind = "return" THEN r
    ELSE [r EXCEPT !.outcome = HTTPException(500, "Error generating forecast")]

\* get_forecast, lines 300-303: an HTTPException is raised again as it is,
\* any other exception becomes a 500.
GetForecastExcept(r) ==
    IF r.outcome.kind = "Exception"
    THEN [r EXCEPT !.outcome = HTTPException(500, "Error generating forecast")]
    ELSE r

\* get_forecast, lines 233-286 and 300-303 (after check_and_reload_model).
get_forecast(lot_id) ==
    IF forecaster = None
    THEN [outcome |-> HTTPException(503, "Model not loaded"), call |-> NoCall]
    ELSE IF data_loader = None
    THEN [outcome |-> HTTPException(503, "Data loader not initialized"), call |-> NoCall]
    ELSE GetForecastExcept(GetForecastTry(lot_id))

\* get_forecast, lines 286-299: the Forecast built from the model's value.
GetForecastReturn(r, lot_id, predictions) ==
    IF r.outcome.kind = "return"
    THEN Return(Forecast(lot_id, r.outcome.body[1], predictions[1]))
    ELSE r.outcome

\* get_all_forecasts, lines 319-344: as GetForecastTry; a return before the
\* predict call is the empty list, one after it the rows predicted from.
GetAllForecastsTry(tie, tie2) ==
    LET df0    == load_combined_data(DB, tie)
        df2    == dropna(EngineerFeatures(df0))
        latest == GroupTail(sort_values(df2, tie2))
    IN  IF Len(df0.rows) = 0 \/ Len(df2.rows) = 0
        THEN [outcome |-> Return(<<>>), call |-> NoCall]
        ELSE IF SelectRaises(latest, forecaster.feature_columns)
        THEN [outcome |-> Exception("KeyError"), call |-> NoCall]
        ELSE IF PredictRaises(forecaster, PredictCall(latest).X)
        THEN [outcome |-> Exception("ValueError"), call |-> PredictCall(latest)]
        ELSE [outcome |-> Return(Tup([idx \in 1..Len(latest.rows) |->
                            [lot_id |-> latest.rows[idx]["lot_id"][1],
                             name |-> latest.rows[idx]["name"][1]]])),
              call |-> PredictCall(latest)]

\* get_all_forecasts, lines 312-344 and 362-363: every exception becomes a 500.
get_all_forecasts(tie, tie2) ==
    IF forecaster = None
    THEN [outcome |-> HTTPException(503, "Model not loaded"), call |-> NoCall]
    ELSE IF data_loader = None
    THEN [outcome |-> HTTPException(503, "Data loader not initialized"), call |-> NoCall]
    ELSE LET r == GetAllForecastsTry(tie, tie2)
         IN  IF r.outcome.kind = "return" THEN r
             ELSE [r EXCEPT !.outcome = HTTPException(500, "Error generating forecasts")]

\* get_all_forecasts, lines 346-361: predictions[idx] is the model's value for
\* the idx-th row of X, and the idx-th row of latest_per_lot labels it.
GetAllForecastsReturn(r, predictions) ==
    IF r.outcome.kind = "return"
    THEN Return(Tup([idx \in 1..Len(r.outcome.body) |->
                    Forecast(r.outcome.body[idx].lot_id, r.outcome.body[idx].name,
                             predictions[idx])]))
    ELSE r.outcome

CurrentStatus(row) ==
    [lot_id |-> row["lot_id"][1], name |-> row["name"][1], total |-> row["total"][1],
     free |-> row["free"][1], occupied |-> row["occupied"][1],
     occupancy_rate |-> row["occupancy_rate"][1], timestamp |-> row["timestamp"][1]]

\* get_current_status: lot_id is the query parameter, NoString when not given.
get_current_status(lot_id, tie, tie2) ==
    IF data_loader = None
    THEN HTTPException(503, "Data loader not initialized")
    ELSE LET df0    == IF lot_id # NoString THEN load_readings(DB, None, None, List(<<lot_id>>), tie)
                       ELSE load_readings(DB, None, None, None, tie)
             latest == GroupTail(sort_values(df0, tie2))
             merged == WithOccupancy(merge(latest,
                           Project(load_parking_lots(DB), <<"id", "name", "total">>),
                           "lot_id", "id", <<"_x", "_y">>))
         IN  IF Len(df0.rows) = 0 THEN Return(<<>>)
             ELSE Return(Tup([i \in 1..Len(merged.rows) |-> CurrentStatus(merged.rows[i])]))

\* ---------------------------------------------- SpecData: serving the data

\* Values the fitted model returns (it is a black box; a boosted regressor can
\* leave the range of its targets).
PredictionValues == {5, 50, 115}

ModelPath == Str("models/parking_forecaster_xgboost.pkl")

DataLoader == [db_path |-> "data/parking.db"]

\* The trainer before its first run.
NoTrainer == [pc |-> "idle", runs |-> 0, forecaster |-> None]

\* The database the model of DataInit was trained on.
ReferenceDB ==
    [parking_readings |-> {ReadingRow(l, t, 1) : l \in RegisteredLots, t \in 1..MaxTs},
     parking_lots |-> {LotRow(l) : l \in RegisteredLots}]

\* The state after startup_event, with a model train_model saved earlier; the
\* table of readings is empty.
DataInit ==
    /\ parking_readings = {}
    /\ parking_lots = {LotRow(l) : l \in RegisteredLots}
    /\ model_file = [mtime |-> 1,
                     content |-> model_data(train_model(ReferenceDB, 1, "A"))]
    /\ trainer = NoTrainer
    /\ forecaster = load(NewForecaster("xgboost"), model_file.content)
    /\ data_loader = DataLoader
    /\ model_path = ModelPath
    /\ model_last_modified = Num(1)
    /\ pc = "idle" /\ req = None /\ resp = None /\ predict_call = NoCall
    /\ df_in = EmptyFrame(<<>>) /\ df_args = None /\ df_out = None

\* The collector stores the reading of lot l at its next hour t.
InsertReading(l, t, f) ==
    /\ pc = "idle"
    /\ t = 1 + Cardinality({r \in parking_readings : r["lot_id"] = Str(l)})
    /\ parking_readings' = parking_readings \cup {ReadingRow(l, t, f)}
    /\ UNCHANGED <<parking_lots, fileVars, serverVars, requestVars, featVars>>

\* check_and_reload_model returns without loading: the path is not set, the
\* file is missing, or its time is not after the recorded one.
NoReload ==
    \/ model_path = None
    \/ model_file = None
    \/ (model_last_modified # None /\ ~(model_file.mtime > model_last_modified[1]))

\* The values the model may return for the rows of a predict call that does
\* not raise.
Predictions(r) ==
    IF r.outcome.kind = "return" /\ r.call.X # None
    THEN [1..Len(r.call.X.rows) -> PredictionValues]
    ELSE {<<>>}

\* GET /forecast/{lot_id} served while the model file is as last loaded.
ServeForecast(lot_id) ==
    /\ pc = "idle" /\ NoReload
    /\ LET r == get_forecast(lot_id)
       IN  /\ req' = [handler |-> "get_forecast", lot_id |-> lot_id]
           /\ \E ps \in Predictions(r) :
                /\ resp' = Response(GetForecastReturn(r, lot_id, ps))
                /\ predict_call' = [r.call EXCEPT !.returned = ps]
    /\ pc' = "respond"
    /\ UNCHANGED <<dbVars, fileVars, serverVars, featVars>>

\* GET /forecast served while the model file is as last loaded.
ServeAllForecasts(tie, tie2) ==
    /\ pc = "idle" /\ NoReload
    /\ LET r == get_all_forecasts(tie, tie2)
       IN  /\ req' = [handler |-> "get_all_forecasts", lot_id |-> NoString]
           /\ \E ps \in Predictions(r) :
                /\ resp' = Response(GetAllForecastsReturn(r, ps))
                /\ predict_call' = [r.call EXCEPT !.returned = ps]
    /\ pc' = "respond"
    /\ UNCHANGED <<dbVars, fileVars, serverVars, featVars>>

\* GET /current, with or without the lot_id query parameter.
ServeCurrent(lot_id, tie, tie2) ==
    /\ pc = "idle"
    /\ req' = [handler |-> "get_current_status", lot_id |-> lot_id]
    /\ resp' = Response(get_current_status(lot_id, tie, tie2))
    /\ predict_call' = NoCall
    /\ pc' = "respond"
    /\ UNCHANGED <<dbVars, fileVars, serverVars, featVars>>

\* A caller of ParkingDataLoader.load_readings.
StartDates == {None, TsText(2)}

EndDates == {None, TsText(3)}

LotIdsArgs == {None, List(<<>>), List(<<"A">>), List(<<"B", "C">>)}

CallLoadReadings(start_date, end_date, lot_ids, tie) ==
    /\ pc = "idle"
    /\ req' = [handler |-> "load_readings", start_date |-> start_date,
               end_date |-> end_date, lot_ids |-> lot_ids]
    /\ resp' = [status_code |-> 0,
                body |-> load_readings(DB, start_date, end_date, lot_ids, tie)]
    /\ predict_call' = NoCall
    /\ pc' = "respond"
    /\ UNCHANGED <<dbVars, fileVars, serverVars, featVars>>

\* A caller of ParkingDataLoader.load_combined_data.
CallLoadCombinedData(tie) ==
    /\ pc = "idle"
    /\ req' = [handler |-> "load_combined_data"]
    /\ resp' = [status_code |-> 0, body |-> load_combined_data(DB, tie)]
    /\ predict_call' = NoCall
    /\ pc' = "respond"
    /\ UNCHANGED <<dbVars, fileVars, serverVars, featVars>>

\* train_model(save_model=False) run on the database: the split it trains and
\* evaluates on; no file is written.
CallTrainModel(tie) ==
    /\ pc = "idle"
    /\ req' = [handler |-> "train_model"]
    /\ resp' = [status_code |-> 0, body |-> TrainModelSplit(DB, tie)]
    /\ predict_call' = NoCall
    /\ pc' = "respond"
    /\ UNCHANGED <<dbVars, fileVars, serverVars, featVars>>

\* The response is sent and the server waits for the next request.
SendResponse ==
    /\ pc = "respond"
    /\ pc' = "idle" /\ req' = None /\ resp' = None /\ predict_call' = NoCall
    /\ UNCHANGED <<dbVars, fileVars, serverVars, featVars>>

\* The rows of equal timestamp are of several lots only when no lot is asked for.
Ties(lot_id) ==
    IF lot_id = NoString THEN RegisteredLots \X RegisteredLots ELSE {<<"A", "A">>}

DataNext ==
    \/ \E l \in RegisteredLots, t \in 1..MaxTs : \E f \in FreeValues(l) : InsertReading(l, t, f)
    \/ \E l \in LotIds : ServeForecast(l)
    \/ \E tie \in RegisteredLots, tie2 \in RegisteredLots : ServeAllForecasts(tie, tie2)
    \/ \E l \in LotIds \cup {NoString} : \E ties \in Ties(l) : ServeCurrent(l, ties[1], ties[2])
    \/ \E sd \in StartDates, ed \in EndDates, ids \in LotIdsArgs, tie \in RegisteredLots :
          CallLoadReadings(sd, ed, ids, tie)
    \/ \E tie \in RegisteredLots : CallLoadCombinedData(tie)
    \/ \E tie \in RegisteredLots : CallTrainModel(tie)
    \/ SendResponse

SpecData == DataInit /\ [][DataNext]_vars

\* ------------------------------------- Spec: the server and the trainer

\* The readings of Spec: lot A has one for every hour, lot B has nB.
SpecReadings(nB) ==
    {ReadingRow("A", t, 1) : t \in 1..MaxTs} \cup {ReadingRow("B", t, 1) : t \in 1..nB}

\* The module is imported: the globals are None (lines 69-72), no model has
\* been trained, lot B is registered or not.
Init ==
    /\ \E nB \in {0, MaxTs} : parking_readings = SpecReadings(nB)
    /\ parking_lots \in {{LotRow(l) : l \in RegisteredLots}, {LotRow("A")}}
    /\ model_file = None /\ trainer = NoTrainer
    /\ forecaster = None /\ data_loader = None
    /\ model_path = None /\ model_last_modified = None
    /\ pc = "idle" /\ req = None /\ resp = None /\ predict_call = NoCall
    /\ df_in = EmptyFrame(<<>>) /\ df_args = None /\ df_out = None

\* startup_event, line 124; load_model follows.  (An ASGI server that runs
\* no lifespan events serves requests without it.)
startup_event ==
    /\ pc = "idle" /\ data_loader = None
    /\ data_loader' = DataLoader
    /\ req' = [handler |-> "startup_event", lot_id |-> NoString]
    /\ pc' = "load_model"
    /\ UNCHANGED <<dbVars, fileVars, forecaster, model_path, model_last_modified,
                   resp, predict_call, featVars>>

\* GET /forecast/{lot_id} or GET /forecast arrives; the handlers are
\* coroutines without an await, so one request is served at a time.
Request(handler, lot_id) ==
    /\ pc = "idle"
    /\ req' = [handler |-> handler, lot_id |-> lot_id]
    /\ pc' = "check_and_reload_model"
    /\ UNCHANGED <<dbVars, fileVars, serverVars, resp, predict_call, featVars>>

\* check_and_reload_model, lines 94-99: load_model is called when the file's
\* time is after the recorded one.
check_and_reload_model ==
    /\ pc = "check_and_reload_model"
    /\ pc' = IF model_path = None \/ model_file = None THEN "handler"
             ELSE IF model_last_modified = None
                     \/ model_file.mtime > model_last_modified[1]
             THEN "load_model"
             ELSE "handler"
    /\ UNCHANGED <<dbVars, fileVars, serverVars, req, resp, predict_call, featVars>>

\* load_model returns (ok) or raises: startup_event lets the exception out and
\* the server does not start; check_and_reload_model catches it (lines 101-105).
LoadModelEnds(ok) ==
    IF req.handler = "startup_event"
    THEN pc' = (IF ok THEN "idle" ELSE "stopped") /\ req' = None
    ELSE pc' = "handler" /\ req' = req

\* load_model, lines 79-84: RuntimeError when the file is missing, else a new
\* forecaster replaces the global one.
LoadModelNew ==
    /\ pc = "load_model"
    /\ model_path' = ModelPath
    /\ IF model_file = None
       THEN forecaster' = forecaster /\ LoadModelEnds(FALSE)
       ELSE forecaster' = NewForecaster("xgboost") /\ pc' = "load" /\ req' = req
    /\ UNCHANGED <<dbVars, fileVars, data_loader, model_last_modified,
                   resp, predict_call, featVars>>

\* load_model, line 85: joblib.load raises on a file not written to its end.
LoadModelLoad ==
    /\ pc = "load"
    /\ IF model_file.content = None
       THEN forecaster' = forecaster /\ LoadModelEnds(FALSE)
       ELSE forecaster' = load(forecaster, model_file.content)
            /\ pc' = "stat" /\ req' = req
    /\ UNCHANGED <<dbVars, fileVars, data_loader, model_path, model_last_modified,
                   resp, predict_call, featVars>>

\* load_model, line 86: the file's time now is recorded.
LoadModelStat ==
    /\ pc = "stat"
    /\ model_last_modified' = Num(model_file.mtime)
    /\ LoadModelEnds(TRUE)
    /\ UNCHANGED <<dbVars, fileVars, forecaster, data_loader, model_path,
                   resp, predict_call, featVars>>

\* get_forecast after check_and_reload_model, lines 233-303.
GetForecast ==
    /\ pc = "handler" /\ req.handler = "get_forecast"
    /\ LET r == get_forecast(req.lot_id)
       IN  \E ps \in Predictions(r) :
                /\ resp' = Response(GetForecastReturn(r, req.lot_id, ps))
                /\ predict_call' = [r.call EXCEPT !.returned = ps]
    /\ pc' = "respond"
    /\ UNCHANGED <<dbVars, fileVars, serverVars, req, featVars>>

\* get_all_forecasts after check_and_reload_model, lines 312-363.
GetAllForecasts(tie, tie2) ==
    /\ pc = "handler" /\ req.handler = "get_all_forecasts"
    /\ LET r == get_all_forecasts(tie, tie2)
       IN  \E ps \in Predictions(r) :
                /\ resp' = Response(GetAllForecastsReturn(r, ps))
                /\ predict_call' = [r.call EXCEPT !.returned = ps]
    /\ pc' = "respond"
    /\ UNCHANGED <<dbVars, fileVars, serverVars, req, featVars>>

\* train.py: train_model up to forecaster.save; nothing is saved when no row
\* is left to train on.
TrainModel(tie) ==
    /\ trainer.pc = "idle" /\ trainer.runs < MaxTrainings
    /\ LET f == train_model(DB, trainer.runs + 1, tie)
       IN  trainer' = IF f = None THEN [trainer EXCEPT !.runs = @ + 1]
                      ELSE [pc |-> "save", runs |-> trainer.runs + 1, forecaster |-> f]
    /\ UNCHANGED <<dbVars, model_file, serverVars, requestVars, featVars>>

\* save, line 255: joblib.dump opens the file for writing, which empties it;
\* the file system stamps it with the wall clock, which is not monotonic.
SaveOpen(mtime) ==
    /\ trainer.pc = "save"
    /\ model_file' = [mtime |-> mtime, content |-> None]
    /\ trainer' = [trainer EXCEPT !.pc = "dump"]
    /\ UNCHANGED <<dbVars, serverVars, requestVars, featVars>>

\* save, line 255: the last bytes are written and the file is closed.
SaveClose(mtime) ==
    /\ trainer.pc = "dump"
    /\ model_file' = [mtime |-> mtime, content |-> model_data(trainer.forecaster)]
    /\ trainer' = [trainer EXCEPT !.pc = "idle", !.forecaster = None]
    /\ UNCHANGED <<dbVars, serverVars, requestVars, featVars>>

Next ==
    \/ startup_event
    \/ \E l \in LotIds : Request("get_forecast", l)
    \/ Request("get_all_forecasts", NoString)
    \/ check_and_reload_model
    \/ LoadModelNew
    \/ LoadModelLoad
    \/ LoadModelStat
    \/ GetForecast
    \/ \E tie \in RegisteredLots, tie2 \in RegisteredLots : GetAllForecasts(tie, tie2)
    \/ SendResponse
    \/ \E tie \in RegisteredLots : TrainModel(tie)
    \/ \E mtime \in 1..MaxMtime : SaveOpen(mtime) \/ SaveClose(mtime)

Spec == Init /\ [][Next]_vars

\* ------------------------- SpecScripts: the forecaster object and predict.py

ModelTypes == {"random_forest", "xgboost", "lightgbm"}

\* ParkingForecaster(model_type), models.py lines 18-64: _init_model gives
\* self.model a regressor not fitted yet, or raises for a type it does not know.
ParkingForecaster(model_type) ==
    IF model_type \in ModelTypes THEN Return(NewForecaster(model_type))
    ELSE Exception("ValueError: Unknown model type")

NotTrained == Exception("ValueError: Model not trained yet")

\* predict, lines 189-192: the guard, then the regressor's own predict, which
\* raises when it is not fitted or X has other columns than it was fitted on.
predict(self, X) ==
    IF self.model = None THEN NotTrained
    ELSE IF ~self.model.fitted THEN Exception("NotFittedError")
    ELSE IF self.model.columns # X.cols THEN Exception("ValueError: feature names")
    ELSE Return("predictions")

\* save, lines 244-256: the guard, then the file is written.
save(self, file, mtime) ==
    IF self.model = None THEN [outcome |-> NotTrained, file |-> file]
    ELSE [outcome |-> Return("None"),
          file |-> [mtime |-> mtime, content |-> model_data(self)]]

\* get_feature_importance, lines 224-240: the guard, then hasattr(self.model,
\* "feature_importances_"); on a regressor not fitted the attribute is missing
\* or reading it raises, as the library has it.
get_feature_importance(self) ==
    IF self.model = None THEN {NotTrained}
    ELSE IF ~self.model.fitted
    THEN {Exception("ValueError: does not support feature importance"),
          Exception("NotFittedError")}
    ELSE {Return("feature_imp")}

\* The frame the scripts build from the database.
ScriptsFrame == dropna(EngineerFeatures(load_combined_data(DB, "A")))

\* No forecaster object yet, no model file; every lot has a reading for every hour.
ScriptsInit ==
    /\ parking_readings = SpecReadings(MaxTs)
    /\ parking_lots = {LotRow(l) : l \in RegisteredLots}
    /\ model_file = None /\ trainer = NoTrainer
    /\ forecaster = None /\ data_loader = None
    /\ model_path = None /\ model_last_modified = None
    /\ pc = "idle" /\ req = None /\ resp = None /\ predict_call = NoCall
    /\ df_in = EmptyFrame(<<>>) /\ df_args = None /\ df_out = None

\* What a call leaves behind: the call, the object and the file it found, and
\* what it ended in.
Called(name, outcome) ==
    /\ req' = [handler |-> name, self |-> forecaster, file |-> model_file]
    /\ resp' = outcome

Construct(model_type) ==
    /\ LET r == ParkingForecaster(model_type)
       IN  /\ forecaster' = IF r.kind = "return" THEN r.body ELSE forecaster
           /\ Called("__init__", IF r.kind = "return" THEN Return("None") ELSE r)
    /\ UNCHANGED <<dbVars, fileVars, data_loader, model_path, model_last_modified,
                   pc, predict_call, featVars>>

\* prepare_data and train on the frame of the database.
Fit ==
    /\ forecaster # None /\ forecaster.model.version < MaxTrainings
    /\ LET p == prepare_data(forecaster, ScriptsFrame, "occupancy_rate")
       IN  forecaster' = train(p.self, p.X, forecaster.model.version + 1)
    /\ Called("train", Return("None"))
    /\ UNCHANGED <<dbVars, fileVars, data_loader, model_path, model_last_modified,
                   pc, predict_call, featVars>>

CallPredict ==
    /\ forecaster # None
    /\ Called("predict",
              predict(forecaster, prepare_data(forecaster, ScriptsFrame, "occupancy_rate").X))
    /\ UNCHANGED <<dbVars, fileVars, serverVars, pc, predict_call, featVars>>

CallSave(mtime) ==
    /\ forecaster # None
    /\ LET r == save(forecaster, model_file, mtime)
       IN  model_file' = r.file /\ Called("save", r.outcome)
    /\ UNCHANGED <<dbVars, trainer, serverVars, pc, predict_call, featVars>>

\* load, lines 258-265: joblib.load raises when there is no file.
CallLoad ==
    /\ forecaster # None
    /\ IF model_file = None
       THEN forecaster' = forecaster /\ Called("load", Exception("FileNotFoundError"))
       ELSE forecaster' = load(forecaster, model_file.content)
            /\ Called("load", Return("None"))
    /\ UNCHANGED <<dbVars, fileVars, data_loader, model_path, model_last_modified,
                   pc, predict_call, featVars>>

CallGetFeatureImportance ==
    /\ forecaster # None
    /\ \E r \in get_feature_importance(forecaster) : Called("get_feature_importance", r)
    /\ UNCHANGED <<dbVars, fileVars, serverVars, pc, predict_call, featVars>>

\* ParkingDataLoader(*args), data_loader.py lines 12-16: db_path has no
\* default, so a call without arguments raises TypeError.
ParkingDataLoader(args) ==
    IF Len(args) = 0 THEN Exception("TypeError: missing argument db_path")
    ELSE Return([db_path |-> args[1]])

\* create_all_features, features.py lines 139-169, with the default lags and
\* windows of add_lag_features and add_rolling_features.
DefaultLags == <<1, 2, 3, 6, 12, 24>>

DefaultWindows == <<3, 6, 12, 24>>

create_all_features(df) ==
    add_rolling_features(
        add_lag_features(add_temporal_features(df, "timestamp"),
                         "occupancy_rate", DefaultLags, "lot_id"),
        "occupancy_rate", DefaultWindows, "lot_id")

\* make_predictions, predict.py lines 25-70: what it ends in before the model
\* answers, what it has loaded by then, and the frame it predicts for.
MakePredictionsTry(file, db, lot_id, tie) ==
    IF file = None
    THEN [outcome |-> Return("None"), loaded |-> <<>>, df |-> None, target |-> NoString]
    ELSE LET f      == load(NewForecaster("xgboost"), file.content)
             loader == ParkingDataLoader(<<>>)
             df0    == IF lot_id # NoString
                       THEN WithOccupancy(merge(
                                load_readings(db, None, None, List(<<lot_id>>), tie),
                                Project(load_parking_lots(db), <<"id", "name", "total">>),
                                "lot_id", "id", <<"_x", "_y">>))
                       ELSE load_combined_data(db, tie)
             df     == dropna(create_all_features(df0))
             failed == [outcome |-> loader, loaded |-> <<"model">>, df |-> None,
                        target |-> NoString]
         IN  IF loader.kind # "return" THEN failed
             ELSE IF SelectRaises(df, f.feature_columns)
             THEN [failed EXCEPT !.outcome = Exception("KeyError"),
                                 !.loaded = <<"model", "data">>]
             ELSE IF predict(f, Project(df, f.feature_columns)).kind # "return"
             THEN [failed EXCEPT !.outcome = predict(f, Project(df, f.feature_columns)),
                                 !.loaded = <<"model", "data">>]
             ELSE [outcome |-> Return("df"), loaded |-> <<"model", "data">>, df |-> df,
                   target |-> f.target_column]

\* make_predictions, lines 72-115: the three columns added to the frame.
MakePredictionsReturn(r, predictions) ==
    IF r.df = None THEN r
    ELSE LET d1 == SetCol(r.df, "predicted_occupancy",
                     Tup([i \in 1..Len(r.df.rows) |-> Num(predictions[i])]))
             d2 == SetCol(d1, "actual_occupancy",
                     Tup([i \in 1..Len(d1.rows) |-> d1.rows[i][r.target]]))
             d3 == SetCol(d2, "prediction_error",
                     Tup([i \in 1..Len(d2.rows) |->
                         Num(d2.rows[i]["actual_occupancy"][1]
                             - d2.rows[i]["predicted_occupancy"][1])]))
         IN  [r EXCEPT !.df = d3]

\* python predict.py [--lot-id lot_id]
MakePredictions(lot_id, tie) ==
    /\ LET r == MakePredictionsTry(model_file, DB, lot_id, tie)
       IN  \E ps \in (IF r.df = None THEN {<<>>}
                      ELSE [1..Len(r.df.rows) -> PredictionValues]) :
              Called("make_predictions", MakePredictionsReturn(r, ps))
    /\ UNCHANGED <<dbVars, fileVars, serverVars, pc, predict_call, featVars>>

ScriptsNext ==
    \/ \E model_type \in ModelTypes \cup {"catboost"} : Construct(model_type)
    \/ Fit
    \/ CallPredict
    \/ \E mtime \in 1..MaxMtime : CallSave(mtime)
    \/ CallLoad
    \/ CallGetFeatureImportance
    \/ \E l \in {NoString, "A"}, tie \in RegisteredLots : MakePredictions(l, tie)

SpecScripts == ScriptsInit /\ [][ScriptsNext]_vars

\* ------------------------------------------------- what the claims speak of

\* The stored readings of lot l, the hour of a stored reading, and the free
\* spaces lot l reported at hour h.
ReadingsOf(l) == {r \in parking_readings : r["lot_id"] = Str(l)}

HourOf(r) == to_datetime(r["timestamp"])[1]

StoredFree(l, h) == (CHOOSE r \in ReadingsOf(l) : HourOf(r) = h)["free"][1]

Registered(l) == \E r \in parking_lots : r["id"] = Str(l)

\* The hours of lot l whose feature row is complete: three earlier readings of
\* the lot fill the lags 1, 2 and 3.
CompleteHours(l) ==
    {HourOf(r) : r \in {x \in ReadingsOf(l) :
        Cardinality({y \in ReadingsOf(l) : HourOf(y) < HourOf(x)}) >= 3}}

SetMax(S) == CHOOSE x \in S : \A y \in S : y <= x

\* The forecasts of the response being sent.
ForecastsSent ==
    IF pc = "respond" /\ resp.status_code = 200 /\ req.handler = "get_forecast"
    THEN {resp.body}
    ELSE IF pc = "respond" /\ resp.status_code = 200 /\ req.handler = "get_all_forecasts"
    THEN {resp.body[i] : i \in 1..Len(resp.body)}
    ELSE {}

\* ------------------------------------------------------ claims on SpecData

\* C3 as the code has it: the band is prediction - 10 to prediction + 10 cut
\* to the range 0..100, so its width is 20 exactly for predictions from 10 to
\* 90 and less outside.
C3_ClampedBand ==
    \A f \in ForecastsSent :
        LET p == f.predicted_occupancy_rate
        IN  /\ f.confidence_low = (IF p - 10 < 0 THEN 0 ELSE p - 10)
            /\ f.confidence_high = (IF p + 10 > 100 THEN 100 ELSE p + 10)
            /\ (p >= 10 /\ p <= 90) => f.confidence_high - f.confidence_low = 20
            /\ (p < 10 \/ p > 90) => f.confidence_high - f.confidence_low < 20

\* A forecast of a prediction below 10 is sent.
C3_Witness == \E f \in ForecastsSent : f.predicted_occupancy_rate < 10

\* C3 as stated: every forecast carries the band prediction - 10 to
\* prediction + 10, of width 20.
C3_FixedWidth ==
    \A f \in ForecastsSent :
        /\ f.confidence_high - f.confidence_low = 20
        /\ f.confidence_low = f.predicted_occupancy_rate - 10
        /\ f.confidence_high = f.predicted_occupancy_rate + 10

\* The i-th row handed to predict is the feature row of lot l at hour h.
IsRowOf(i, l, h) ==
    /\ predict_call.source[i] = [lot_id |-> l, timestamp |-> h]
    /\ predict_call.X.rows[i]["hour"] = Num(h % 24)
    /\ predict_call.X.rows[i]["total"] = Num(LotTotal(l))

\* C4: GET /forecast/{lot_id} predicts from the one complete feature row of
\* the lot with the greatest timestamp; GET /forecast returns one forecast for
\* each lot with a complete row, computed from that lot's complete row of
\* greatest timestamp and labelled with that lot's id and name.
C4_LatestCompleteRow ==
    (pc = "respond" /\ resp.status_code = 200) =>
        /\ req.handler = "get_forecast" =>
              /\ Len(predict_call.source) = 1
              /\ IsRowOf(1, req.lot_id, SetMax(CompleteHours(req.lot_id)))
              /\ resp.body.lot_id = req.lot_id
              /\ resp.body.name = LotRow(req.lot_id)["name"][1]
              /\ resp.body.predicted_occupancy_rate = predict_call.returned[1]
        /\ req.handler = "get_all_forecasts" =>
              LET lots == {l \in LotIds : Registered(l) /\ CompleteHours(l) # {}}
              IN  /\ Len(resp.body) = Cardinality(lots)
                  /\ Len(predict_call.source) = Len(resp.body)
                  /\ \A l \in lots : \E i \in 1..Len(resp.body) : resp.body[i].lot_id = l
                  /\ \A i \in 1..Len(resp.body) :
                        LET l == resp.body[i].lot_id
                        IN  /\ l \in lots
                            /\ IsRowOf(i, l, SetMax(CompleteHours(l)))
                            /\ resp.body[i].name = LotRow(l)["name"][1]
                            /\ resp.body[i].predicted_occupancy_rate
                                  = predict_call.returned[i]

\* GET /forecast answers with two forecasts while lot A has two complete rows.
C4_Witness ==
    /\ pc = "respond" /\ req.handler = "get_all_forecasts"
    /\ resp.status_code = 200 /\ Len(resp.body) = 2
    /\ Cardinality(CompleteHours("A")) >= 2

\* occupied and rate are derived from the capacity of lot l and `free`.
Derived(l, free, occupied, rate) ==
    /\ occupied = LotTotal(l) - free
    /\ rate * LotTotal(l) = (LotTotal(l) - free) * 100

\* C5: in load_combined_data, GET /current and GET /forecast/{lot_id} every
\* row has occupied = total - free and occupancy_rate = (total - free) / total
\* * 100, total being the capacity of the reading's own lot.
C5_OccupancyDerived ==
    pc = "respond" =>
        /\ req.handler = "load_combined_data" =>
              /\ Len(resp.body.rows) = Cardinality(parking_readings)
              /\ \A i \in 1..Len(resp.body.rows) :
                    LET row == resp.body.rows[i]
                        l   == row["lot_id"][1]
                    IN  /\ row["total"] = Num(LotTotal(l))
                        /\ row["free"] = Num(StoredFree(l, row["timestamp"][1]))
                        /\ Derived(l, row["free"][1], row["occupied"][1],
                                   row["occupancy_rate"][1])
        /\ (req.handler = "get_current_status" /\ resp.status_code = 200) =>
              \A i \in 1..Len(resp.body) :
                  LET s == resp.body[i]
                  IN  /\ s.total = LotTotal(s.lot_id)
                      /\ s.free = StoredFree(s.lot_id, s.timestamp)
                      /\ Derived(s.lot_id, s.free, s.occupied, s.occupancy_rate)
        /\ (req.handler = "get_forecast" /\ resp.status_code = 200) =>
              LET h == predict_call.source[1].timestamp
                  l == req.lot_id
                  x == predict_call.X.rows[1]
              IN  /\ x["total"] = Num(LotTotal(l))
                  /\ \A k \in 1..3 :
                        Derived(l, StoredFree(l, h - k), LotTotal(l) - StoredFree(l, h - k),
                                x["occupancy_rate_lag_" \o ToString(k)][1])

\* GET /current answers for both lots, lot A with no free space.
C5_Witness ==
    /\ pc = "respond" /\ req.handler = "get_current_status"
    /\ resp.status_code = 200 /\ Len(resp.body) = 2
    /\ \E i \in 1..2 : resp.body[i].lot_id = "A" /\ resp.body[i].free = 0

\* C8: GET /forecast/{lot_id} for a known lot with at least 3 readings, none
\* with a missing field, returns a forecast and not the 400 response; the 400
\* response is returned only when the lot has fewer than 3 readings.
C8_ThreeReadingsSuffice ==
    (pc = "respond" /\ req.handler = "get_forecast" /\ Registered(req.lot_id)) =>
        /\ Cardinality(ReadingsOf(req.lot_id)) >= 3 => resp.status_code = 200
        /\ resp.status_code = 400 => Cardinality(ReadingsOf(req.lot_id)) < 3

\* The stored readings that satisfy every filter passed to load_readings.
Wanted(start_date, end_date, lot_ids) ==
    {r \in parking_readings :
        /\ lot_ids # None => InSeq(r["lot_id"][1], lot_ids[1])
        /\ start_date # None => HourOf(r) >= to_datetime(start_date)[1]
        /\ end_date # None => HourOf(r) <= to_datetime(end_date)[1]}

\* C10: load_readings returns exactly the stored readings that satisfy every
\* filter passed, in ascending timestamp order: for any list passed as lot_ids
\* every returned reading has its lot_id in the list, for a start_date every
\* returned timestamp is at or after it, for an end_date at or before it.
C10_ExactlyTheFiltered ==
    (pc = "respond" /\ req.handler = "load_readings") =>
        LET want == Wanted(req.start_date, req.end_date, req.lot_ids)
            rows == resp.body.rows
        IN  /\ Len(rows) = Cardinality(want)
            /\ \A r \in want : \E i \in 1..Len(rows) : rows[i]["id"] = r["id"]
            /\ \A i \in 1..Len(rows) :
                  \E r \in want : /\ rows[i]["id"] = r["id"]
                                  /\ rows[i]["lot_id"] = r["lot_id"]
                                  /\ rows[i]["free"] = r["free"]
                                  /\ rows[i]["timestamp"] = Num(HourOf(r))
            /\ \A i \in 1..Len(rows), j \in 1..Len(rows) :
                  i < j => rows[i]["timestamp"][1] <= rows[j]["timestamp"][1]

\* The hour and the lot of row i of the frame train_model prepared.
PreparedHour(i) == resp.body.df.rows[i]["timestamp"][1]

PreparedLot(i) == resp.body.df.rows[i]["lot_id"][1]

SeqRange(s) == {s[k] : k \in 1..Len(s)}

\* C13: train_model splits chronologically: the test set is the last 20% of
\* the prepared rows (rounded up to whole rows), the training set the rows
\* before them, the prepared rows are in the order of their timestamps, and
\* every training row's timestamp is at most every test row's, whatever the
\* lots of the rows.
C13_ChronologicalSplit ==
    (pc = "respond" /\ req.handler = "train_model" /\ resp.body.split # None) =>
        LET n == Len(resp.body.df.rows)
            X_train == resp.body.split.train
            X_test == resp.body.split.test
        IN  /\ Len(resp.body.X.rows) = n
            /\ X_train \o X_test = Range(n)
            /\ 5 * Len(X_test) >= n /\ 5 * (Len(X_test) - 1) < n
            /\ \A i \in 1..n, j \in 1..n : i < j => PreparedHour(i) <= PreparedHour(j)
            /\ \A i \in SeqRange(X_train), j \in SeqRange(X_test) :
                  PreparedHour(i) <= PreparedHour(j)

\* A split whose training rows are of both lots and of two different hours,
\* with a test row of the lot that is not the last one trained on.
C13_Witness ==
    /\ pc = "respond" /\ req.handler = "train_model" /\ resp.body.split # None
    /\ LET X_train == resp.body.split.train
           X_test == resp.body.split.test
       IN  /\ {PreparedLot(i) : i \in SeqRange(X_train)} = RegisteredLots
           /\ \E i \in SeqRange(X_train), j \in SeqRange(X_train) :
                 PreparedHour(i) < PreparedHour(j)
           /\ \E j \in SeqRange(X_test) : PreparedLot(j) # PreparedLot(X_train[Len(X_train)])

\* --------------------------------------------------- claims on SpecScripts

\* C11: predict, save or get_feature_importance on a forecaster that has not
\* been trained (no train and no load since construction) raises ValueError
\* 'Model not trained yet'; in particular save writes no file in that state.
C11_UntrainedRaises ==
    (/\ req # None
     /\ req.handler \in {"predict", "save", "get_feature_importance"}
     /\ req.self = NewForecaster(req.self.model_type)) =>
        /\ resp = NotTrained
        /\ req.handler = "save" => model_file = req.file

\* C12: make_predictions returns without loading anything when the model file
\* does not exist; when it exists it loads the model, loads the readings and
\* returns the feature frame extended with predicted_occupancy,
\* actual_occupancy and prediction_error = actual_occupancy - predicted_occupancy.
C12_MakePredictions ==
    (req # None /\ req.handler = "make_predictions") =>
        /\ req.file = None =>
              /\ resp.outcome.kind = "return"
              /\ resp.loaded = <<>>
              /\ resp.df = None
        /\ req.file # None =>
              /\ resp.outcome.kind = "return"
              /\ resp.loaded = <<"model", "data">>
              /\ resp.df # None
              /\ \A c \in {"predicted_occupancy", "actual_occupancy", "prediction_error"} :
                    HasCol(resp.df, c)
              /\ \A i \in 1..Len(resp.df.rows) :
                    LET row == resp.df.rows[i]
                    IN  /\ row["actual_occupancy"] = row["occupancy_rate"]
                        /\ row["prediction_error"][1]
                              = row["actual_occupancy"][1] - row["predicted_occupancy"][1]

\* ---------------------------------------------------------- claims on Spec

\* C1: on a forecast request, if the model file exists and its modification
\* time has changed since the time recorded at the last load,
\* check_and_reload_model reloads the model before the prediction is made
\* (stated for a file written to its end).
C1_ReloadOnChange ==
    [][(/\ pc = "check_and_reload_model" /\ pc' # pc
        /\ model_path # None /\ model_file # None /\ model_file.content # None
        /\ model_last_modified # Num(model_file.mtime)) => pc' = "load_model"]_vars

\* C2: for every model saved by train_model and loaded by the server, the
\* columns of forecaster.feature_columns are all in the frame built at
\* inference (no KeyError, so no 500), and the matrix passed to predict has
\* exactly those columns in the order recorded at training.
C2_FeatureColumnsMatch ==
    (/\ pc = "respond" /\ req.handler \in {"get_forecast", "get_all_forecasts"}
     /\ forecaster # None /\ forecaster.model.fitted) =>
        /\ resp.status_code # 500
        /\ predict_call.X # None =>
              /\ predict_call.X.cols = forecaster.feature_columns
              /\ predict_call.X.cols = predict_call.model.columns
              /\ predict_call.model = forecaster.model

\* A forecast is sent that the second model trained, reloaded by the server,
\* has computed.
C2_Witness ==
    /\ pc = "respond" /\ req.handler = "get_forecast" /\ resp.status_code = 200
    /\ predict_call.model.version = 2
    /\ model_last_modified # None

\* C9: GET /forecast/{lot_id} answers 503 without a model or a data loader,
\* 404 when the lot has no readings, 404 when it has readings but no entry in
\* parking_lots, each with its own status code; a 500 comes only from an
\* exception that is no HTTPException, raised while forecasting.
C9_StatusCodes ==
    (pc = "respond" /\ req.handler = "get_forecast") =>
        LET loaded == forecaster # None /\ data_loader # None
            l      == req.lot_id
        IN  /\ ~loaded => resp.status_code = 503
            /\ (loaded /\ ReadingsOf(l) = {}) => resp.status_code = 404
            /\ (loaded /\ ReadingsOf(l) # {} /\ ~Registered(l)) => resp.status_code = 404
            /\ resp.status_code = 500 =>
                  /\ loaded /\ ReadingsOf(l) # {} /\ Registered(l)
                  /\ forecaster.feature_columns = None

\* A lot with readings and no entry in parking_lots is answered 404 by a
\* server with a model loaded.
C9_Witness ==
    /\ pc = "respond" /\ req.handler = "get_forecast"
    /\ forecaster # None /\ forecaster.model.fitted
    /\ ReadingsOf(req.lot_id) # {} /\ ~Registered(req.lot_id)
    /\ resp.status_code = 404


\* C14: with the trainer rewriting the model file at any moment relative to
\* the steps of load_model, whenever load_model has recorded the file's
\* modification time and the file is whole, the forecaster in memory is the
\* model stored in the file: the server never holds an older model together
\* with an up-to-date recorded time.
C14_RecordedTimeIsLoadedModel ==
    [][(/\ pc = "stat" /\ pc' # "stat"
        /\ model_file'.content # None
        /\ model_last_modified' = Num(model_file'.mtime))
       => forecaster' = load(NewForecaster("xgboost"), model_file'.content)]_vars

\* ------------------------------------------------ SpecFeat: the pure pipeline

FeatLots == {"A", "B"}

FeatTargets == {0, 100}

FeatRow == [lot_id : {Str(g) : g \in FeatLots},
            occupancy_rate : {Num(t) : t \in FeatTargets}]

FeatFrames ==
    UNION {[cols : {<<"lot_id", "occupancy_rate">>}, rows : [1..n -> FeatRow]]
           : n \in 0..MaxRows}

\* The lags and windows train_model and the server pass, and a second choice.
FeatArgs == {[lags |-> a[1], windows |-> a[2], group_col |-> g] :
             a \in {<<<<1, 2, 3>>, <<3>>>>, <<<<2, 1>>, <<2, 3>>>>},
             g \in {"lot_id", NoString}}

FeatInit ==
    /\ parking_readings = {} /\ parking_lots = {}
    /\ model_file = None /\ trainer = NoTrainer
    /\ forecaster = None /\ data_loader = None
    /\ model_path = None /\ model_last_modified = None
    /\ pc = "idle" /\ req = None /\ resp = None /\ predict_call = NoCall
    /\ df_in \in FeatFrames
    /\ df_args \in FeatArgs
    /\ df_out = <<"none", EmptyFrame(<<>>)>>

AddLagFeatures ==
    /\ df_out[1] = "none"
    /\ df_out' = <<"lag", add_lag_features(df_in, "occupancy_rate",
                                           df_args.lags, df_args.group_col)>>
    /\ UNCHANGED <<df_in, df_args, dbVars, fileVars, serverVars, requestVars>>

AddRollingFeatures ==
    /\ df_out[1] = "none"
    /\ df_out' = <<"rolling", add_rolling_features(df_in, "occupancy_rate",
                                           df_args.windows, df_args.group_col)>>
    /\ UNCHANGED <<df_in, df_args, dbVars, fileVars, serverVars, requestVars>>

FeatNext == AddLagFeatures \/ AddRollingFeatures

SpecFeat == FeatInit /\ [][FeatNext]_vars

\* ------------------------------------------------------ claims on SpecFeat

LagName(lag) == "occupancy_rate_lag_" \o ToString(lag)

\* The rows of the same lot as row i that come before it in the frame.
SameLotBefore(i) ==
    {j \in 1..(i - 1) : df_in.rows[j].lot_id = df_in.rows[i].lot_id}

\* The row of the same lot n places before row i in that lot's own sequence.
NthBefore(i, n) ==
    CHOOSE j \in SameLotBefore(i) :
        Cardinality({k \in SameLotBefore(i) : k >= j}) = n

\* C6: add_lag_features grouped by the lot column: the column <target>_lag_N
\* of every row holds the target of the same lot N rows earlier in that lot's
\* own sequence, is missing for the first N rows of each lot, and the frame's
\* other columns and its rows are left as they were.
C6_LagPerLot ==
    (df_out[1] = "lag" /\ df_args.group_col = "lot_id") =>
        /\ Len(df_out[2].rows) = Len(df_in.rows)
        /\ \A i \in 1..Len(df_in.rows) :
            /\ \A c \in DOMAIN df_in.rows[i] :
                   df_out[2].rows[i][c] = df_in.rows[i][c]
            /\ \A l \in 1..Len(df_args.lags) :
                LET n == df_args.lags[l]
                    v == df_out[2].rows[i][LagName(n)]
                IN  IF Cardinality(SameLotBefore(i)) >= n
                    THEN v = df_in.rows[NthBefore(i, n)].occupancy_rate
                    ELSE isna(v)

\* A frame of two interleaved lots in which the row just before a row belongs
\* to the other lot and holds another value than the row's own lag 1, and
\* where some row has its lag 3.
C6_Witness ==
    /\ df_out[1] = "lag" /\ df_args.group_col = "lot_id"
    /\ df_args.lags = <<1, 2, 3>>
    /\ \E i \in 2..Len(df_in.rows) :
        /\ df_in.rows[i - 1].lot_id # df_in.rows[i].lot_id
        /\ ~isna(df_out[2].rows[i][LagName(1)])
        /\ df_out[2].rows[i][LagName(1)] # df_in.rows[i - 1].occupancy_rate
    /\ \E i \in 1..Len(df_in.rows) : ~isna(df_out[2].rows[i][LagName(3)])

\* The last n observations of row i's lot ending at row i.
LastOfLot(i, n) ==
    {j \in 1..i : /\ df_in.rows[j].lot_id = df_in.rows[i].lot_id
                  /\ Cardinality({k \in (j + 1)..i :
                         df_in.rows[k].lot_id = df_in.rows[i].lot_id}) < n}

RECURSIVE SetSum(_, _)
SetSum(S, f) ==
    IF S = {} THEN 0
    ELSE LET j == CHOOSE k \in S : TRUE IN f[j] + SetSum(S \ {j}, f)

\* C7: add_rolling_features grouped by the lot column: for every window N the
\* mean, sample standard deviation, maximum and minimum columns of every row
\* are those of the target over the last N observations of the same lot
\* ending at that row (fewer when the lot has fewer so far; the deviation of
\* a single observation is missing).
C7_RollingPerLot ==
    (df_out[1] = "rolling" /\ df_args.group_col = "lot_id") =>
        /\ Len(df_out[2].rows) = Len(df_in.rows)
        /\ \A i \in 1..Len(df_in.rows), l \in 1..Len(df_args.windows) :
            LET n    == df_args.windows[l]
                S    == LastOfLot(i, n)
                x    == [j \in 1..Len(df_in.rows) |->
                            df_in.rows[j].occupancy_rate[1]]
                sum  == SetSum(S, x)
                sq   == SetSum(S, [j \in 1..Len(df_in.rows) |-> x[j] * x[j]])
                c    == Cardinality(S)
                row  == df_out[2].rows[i]
                mean == row[RollingName("occupancy_rate", "mean", n)]
                std  == row[RollingName("occupancy_rate", "std", n)]
                max  == row[RollingName("occupancy_rate", "max", n)]
                min  == row[RollingName("occupancy_rate", "min", n)]
            IN  /\ mean[1] * c = sum * mean[2] /\ mean[2] > 0
                /\ IF c = 1 THEN isna(std)
                   ELSE /\ std[1] = "sqrt" /\ std[3] > 0
                        \* the sample variance: sum of (x - mean)^2 over (c - 1)
                        /\ std[2] * (c * (c - 1)) = (c * sq - sum * sum) * std[3]
                /\ max[1] \in {x[j] : j \in S} /\ \A j \in S : x[j] <= max[1]
                /\ min[1] \in {x[j] : j \in S} /\ \A j \in S : x[j] >= min[1]

\* Two interleaved lots with a full window of 3 for one of them, whose
\* window's values differ from those of the 3 preceding rows of the frame.
C7_Witness ==
    /\ df_out[1] = "rolling" /\ df_args.group_col = "lot_id"
    /\ df_args.windows = <<3>>
    /\ \E i \in 1..Len(df_in.rows) :
        /\ Cardinality(LastOfLot(i, 3)) = 3
        /\ LastOfLot(i, 3) # (i - 2)..i
        /\ df_out[2].rows[i]["occupancy_rate_rolling_max_3"] # Num(100)
        /\ \E j \in (i - 2)..i : j >= 1 /\ df_in.rows[j].occupancy_rate = Num(100)

====
